---- MODULE Spec2Model ----
(***************************************************************************)
(* Model of chessgraph.py: the recursive, concurrent graph exploration of  *)
(* ChessGraph.recurse, its per-depth thread pools, the score-fetch pool,   *)
(* the shared visited set and score cache, and the emitted nodes/edges.    *)
(***************************************************************************)
EXTENDS Integers, Sequences, FiniteSets, TLC

\* ------------------------------------------------------------------ bounds
\* largest --depth explored by the model
MaxDepth == 3
\* largest --concurrency explored by the model
MaxConcurrency == 2
\* largest number of provider calls that fail in one run
MaxFailures == 1

\* ------------------------------------------------------- program constants
\* score of a checkmated side to move (bestscore = -30000)
MateScore == 30000
\* lichessmingames: a lichess move needs more games than this to be scored
lichessmingames == 10
\* --boardedges default
boardedges == 3
\* the thread that calls generate_graph runs the root recurse itself
MainThread == -1

\* bestscore = None
None == <<>>

Sources == {"chessdb", "engine", "lichess"}

\* ------------------------------------------------- the chess-rules library
\* A small game graph standing for chess.Board: every position (EPD) has a
\* side to move, an in-check flag and its moves.  MoveTable lists the moves
\* a provider can name and the positions they lead to.
Positions ==
  {"R", "A", "B", "C", "X", "S", "M", "W",
   "W1", "W2", "W3", "W4", "W5", "W6", "W7", "W8"}

White == "w"
Black == "b"

\* board.turn
Turn(epd) == IF epd \in {"R", "X", "S", "W"} THEN White ELSE Black

\* positions without legal moves, and those among them with the king in check
NoLegalMoves == {"S", "M"}
InCheck == {"M"}

\* board.push(move); board.epd()
MoveTable ==
  { [from |-> "R", uci |-> "e2e4", to |-> "A"],
    [from |-> "R", uci |-> "d2d4", to |-> "B"],
    [from |-> "R", uci |-> "a2a3", to |-> "C"],
    [from |-> "A", uci |-> "e7e5", to |-> "X"],
    [from |-> "B", uci |-> "e7e5", to |-> "X"],
    [from |-> "B", uci |-> "d8h4", to |-> "S"],
    [from |-> "X", uci |-> "d1h5", to |-> "M"],
    [from |-> "W", uci |-> "m1", to |-> "W1"],
    [from |-> "W", uci |-> "m2", to |-> "W2"],
    [from |-> "W", uci |-> "m3", to |-> "W3"],
    [from |-> "W", uci |-> "m4", to |-> "W4"],
    [from |-> "W", uci |-> "m5", to |-> "W5"],
    [from |-> "W", uci |-> "m6", to |-> "W6"],
    [from |-> "W", uci |-> "m7", to |-> "W7"],
    [from |-> "W", uci |-> "m8", to |-> "W8"] }

Push(epd, uci) == (CHOOSE m \in MoveTable : m.from = epd /\ m.uci = uci).to

\* board.is_checkmate(), board.is_stalemate()
is_checkmate(epd) == epd \in NoLegalMoves /\ epd \in InCheck
is_stalemate(epd) == epd \in NoLegalMoves /\ epd \notin InCheck

\* ------------------------------------------------------ the score provider
\* What a healthy provider answers for a position, in the provider's order:
\* the move, its score for the side to move, and (lichess) the game count.
Mv(u, s, g) == [uci |-> u, score |-> s, games |-> g]

ProviderData(epd) ==
  CASE epd = "R" -> << Mv("d2d4", 20, 50), Mv("e2e4", 30, 90), Mv("a2a3", -5, 20) >>
    [] epd = "A" -> << Mv("e7e5", 10, 40) >>
    [] epd = "B" -> << Mv("d8h4", 0, 30), Mv("e7e5", 0, 30) >>
    [] epd = "X" -> << Mv("d1h5", 29999, 11) >>
    [] epd = "W" -> << Mv("m3", 30, 60), Mv("m1", 40, 80), Mv("m2", 35, 70),
                       Mv("m8", 5, 5),   Mv("m5", 20, 40), Mv("m4", 25, 50),
                       Mv("m7", 10, 20), Mv("m6", 15, 30) >>
    [] OTHER -> << >>

\* the {"score", "uci"} dictionaries built by the get_moves_* functions
Std(m) == [uci |-> m.uci, score |-> m.score]

RECURSIVE StdMoves(_)
StdMoves(ms) ==
  IF ms = << >> THEN << >> ELSE << Std(Head(ms)) >> \o StdMoves(Tail(ms))

\* get_moves_lichess keeps only the moves with more than lichessmingames games
RECURSIVE LichessMoves(_)
LichessMoves(ms) ==
  IF ms = << >> THEN << >>
  ELSE IF Head(ms).games > lichessmingames
       THEN << Std(Head(ms)) >> \o LichessMoves(Tail(ms))
       ELSE LichessMoves(Tail(ms))

\* ------------------------------------------------------------ pure helpers
\* the moves gone through as the provider (or the cache) lists them, unsorted
ProviderOrder(s) == s

\* sorted(moves, key=score, reverse=True): stable, equal scores keep their order
\* the place of s[i] in the sorted list: after every move with a larger score
\* and after the earlier moves with the same score

SortedPlace(s, i) ==
  1 + Cardinality({j \in 1..Len(s) :
                     \/ s[j].score > s[i].score
                     \/ s[j].score = s[i].score /\ j < i})

SortedDesc(s) ==
  IF s = << >> THEN << >>
  ELSE [k \in 1..Len(s) |-> s[CHOOSE i \in 1..Len(s) : SortedPlace(s, i) = k]]

RECURSIVE Pow4(_)
Pow4(k) == IF k = 0 THEN 1 ELSE 4 * Pow4(k - 1)

\* int(1.0 + log2(edgesfound)): the late reduction with the half ply left out
LateReductionFloor(edgesfound) ==
  CHOOSE k \in 1..(edgesfound + 1) :
    Pow4(k - 1) <= edgesfound * edgesfound /\ edgesfound * edgesfound < Pow4(k)

\* int(1.5 + math.log(edgesfound) / math.log(2)) for edgesfound >= 1:
\* the k with k - 1.5 <= log2(n) < k - 0.5, i.e. 4^(k-1) <= 2 n^2 < 4^k
LateReduction(edgesfound) ==
  CHOOSE k \in 1..(edgesfound + 1) :
    Pow4(k - 1) <= 2 * edgesfound * edgesfound /\ 2 * edgesfound * edgesfound < Pow4(k)

\* every child of the run submitted to one and the same pool, executorgraph[0]
SinglePool(d, nd) == 0

\* a child submitted to the pool of its own remaining depth
ChildDepthPool(d, nd) == nd

\* the cutoff written with < for <=
AlphaCutoffStrict(score, alpha) == score < alpha

\* the best reply followed without spending a ply
NewDepthNoDecrement(d, score, bestscore, edgesfound) ==
  IF score = bestscore THEN d ELSE d - LateReduction(edgesfound)

\* the late reduction applied to every move, best replies included
NewDepthAlwaysLate(d, score, bestscore, edgesfound) ==
  d - LateReduction(edgesfound)

\* the bounds negated but not swapped
ChildBoundsNoSwap(alpha, beta) == << -alpha, -beta >>

\* an edge principal whenever its score is the best, whatever the task
PvEdgeAnyTask(pvNode, score, bestscore) == score = bestscore

\* the mate score with the wrong sign
TerminalScoreSign(epd) == IF epd \in InCheck THEN << 30000 >> ELSE << 0 >>

\* executorgraph[depth].submit: the graph pool a task of remaining depth d,
\* about to create a child of remaining depth nd, submits that child to
PoolIndex(d, nd) == d

\* the alpha cutoff of the move loop: "if score <= alpha: break"
AlphaCutoff(score, alpha) == score <= alpha

\* the depth rule: depth - 1 for a best-score move, else the late reduction
NewDepth(d, score, bestscore, edgesfound) ==
  IF score = bestscore THEN d - 1 ELSE d - LateReduction(edgesfound)

\* pvEdge = pvNode and score == bestscore; lateEdge = score != bestscore
PvEdge(pvNode, score, bestscore) == pvNode /\ score = bestscore
LateEdge(score, bestscore) == score # bestscore

\* the bounds handed to a child: (-beta, -alpha)
ChildBounds(alpha, beta) == << -beta, -alpha >>

\* bestscore of a position without legal moves
TerminalScore(epd) == IF is_checkmate(epd) THEN << -MateScore >> ELSE << 0 >>

\* the showboard argument of write_node
ShowBoard(edgesdrawn, pvNode, plyFromRoot) ==
  edgesdrawn >= boardedges \/ (pvNode /\ edgesdrawn = 0) \/ plyFromRoot = 0

\* ------------------------------------------------------------------- state
VARIABLES
  depth,        \* self.depth
  concurrency,  \* max_workers of every pool
  source,       \* self.source
  visited,      \* self.visited
  cache,        \* self.cache: key -> list of moves
  tasks,        \* every call of recurse: the root call and the submitted futures
  nodes,        \* the write_node calls made so far
  edges         \* the write_edge calls made so far

vars == << depth, concurrency, source, visited, cache, tasks, nodes, edges >>

\* the places a call of recurse can be at
Queued      == "queued"      \* called or submitted, not yet at the visited test
AtMark      == "mark"        \* before "self.visited.add(epdfrom)"
FetchQueued == "fetchq"      \* get_moves submitted to executorwork, no worker yet
Fetching    == "fetchrun"    \* get_moves asking the provider
InLoop      == "loop"        \* in the move loop, before candidate i
Waiting     == "wait"        \* at concurrent.futures.wait(futures)
Returned    == "returned"    \* returned at the visited test, nothing written
Done        == "done"        \* returned after write_node
Raised      == "raised"      \* ended by an exception

Finished == {Returned, Done, Raised}
Running  == {AtMark, FetchQueued, Fetching, InLoop, Waiting}

TaskIds == 1..Len(tasks)

\* the cache key of a position: (epd, "chessdb"), (epd, engine, ...), (epd, "lichess", ...)
Key(epd) == << epd, source >>

\* the user bounds a run may be started with, from White's point of view
UserBounds == { << 0, 15 >>, << 25, 40 >> }

\* the positions a run may be started from
Roots == {"R", "W", "A"}

\* ChessGraph.__init__: empty visited set, graph and cache
Init ==
  /\ depth \in 0..MaxDepth
  /\ concurrency \in 1..MaxConcurrency
  /\ source \in Sources
  /\ visited = {}
  /\ cache = << >>
  /\ tasks = << >>
  /\ nodes = {}
  /\ edges = {}

\* the arguments and locals of a call of recurse; user, parent, cand, newDepths
\* and failed record the run: the bounds given to generate_graph, the
\* submitting call and its candidate, the child depths computed, a failed fetch
NewTask(epd, d, a, b, pv, ply, pool, parent, cand, pc, user) ==
  [ epd |-> epd, depth |-> d, alpha |-> a, beta |-> b, pvNode |-> pv,
    user |-> user,
    plyFromRoot |-> ply, pool |-> pool, parent |-> parent, cand |-> cand,
    pc |-> pc, moves |-> << >>, i |-> 1, bestscore |-> None,
    edgesfound |-> 0, edgesdrawn |-> 0, futures |-> {},
    newDepths |-> << >>, failed |-> FALSE ]

\* the user's bounds used as they are, whichever side is to move
InitialBoundsNoFlip(epd, alpha, beta) == << alpha, beta >>

\* generate_graph: the bounds are the user's for White to move and
\* (-beta, -alpha) for Black to move; the root recurse runs in the caller
InitialBounds(epd, alpha, beta) ==
  IF Turn(epd) = White THEN << alpha, beta >> ELSE << -beta, -alpha >>

GenerateGraph(epd, alpha, beta) ==
  /\ tasks = << >>
  /\ LET ab == InitialBounds(epd, alpha, beta)
     IN tasks' = << NewTask(epd, depth, ab[1], ab[2], TRUE, 0, MainThread,
                            0, 0, Queued, << alpha, beta >>) >>
  /\ UNCHANGED << depth, concurrency, source, visited, cache, nodes, edges >>

\* May task t start?  A submitted task needs a free worker of its graph pool
\* and is taken in submission order; the root call runs in the calling thread
MayStart(t) ==
  \/ tasks[t].pool = MainThread
  \/ /\ Cardinality({u \in TaskIds :
                       tasks[u].pool = tasks[t].pool /\ tasks[u].pc \in Running})
          < concurrency
     /\ \A u \in TaskIds :
          (tasks[u].pool = tasks[t].pool /\ tasks[u].pc = Queued) => t <= u

\* the visited test left out
AlreadyVisitedNever(t) == FALSE

\* "epdfrom in self.visited"
AlreadyVisited(t) == tasks[t].epd \in visited

\* recurse starts: "if epdfrom in self.visited: return"
CheckVisited(t) ==
  /\ tasks[t].pc = Queued
  /\ MayStart(t)
  /\ tasks' = [tasks EXCEPT ![t].pc =
                 IF AlreadyVisited(t) THEN Returned ELSE AtMark]
  /\ UNCHANGED << depth, concurrency, source, visited, cache, nodes, edges >>

\* recurse: "self.visited.add(epdfrom)", then the terminal tests; a position
\* with legal moves submits get_moves to executorwork and waits for its result
MarkVisited(t) ==
  /\ tasks[t].pc = AtMark
  /\ visited' = visited \cup {tasks[t].epd}
  /\ tasks' =
       IF is_checkmate(tasks[t].epd) \/ is_stalemate(tasks[t].epd)
       THEN [tasks EXCEPT ![t].bestscore = TerminalScore(tasks[t].epd),
                          ![t].pc = Waiting]
       ELSE [tasks EXCEPT ![t].pc = FetchQueued]
  /\ UNCHANGED << depth, concurrency, source, cache, nodes, edges >>

\* the task goes on with the list get_moves returned
Deliver(t, stdmoves) ==
  [tasks EXCEPT ![t].moves = SortedDesc(stdmoves),
                ![t].pc = IF stdmoves = << >> THEN Waiting ELSE InLoop]

\* every source trusting any cached entry, empty lists included
CacheHitAnyEntry(epd) == Key(epd) \in DOMAIN cache

\* does get_moves_* answer from the cache?  The engine trusts any entry,
\* chessdb and lichess only a non-empty one
CacheHit(epd) ==
  /\ Key(epd) \in DOMAIN cache
  /\ source = "engine" \/ Len(cache[Key(epd)]) > 0

\* a free worker of executorwork starts get_moves(epd): the cache lookup
FetchBegin(t) ==
  /\ tasks[t].pc = FetchQueued
  /\ Cardinality({u \in TaskIds : tasks[u].pc = Fetching}) < concurrency
  /\ tasks' = IF CacheHit(tasks[t].epd)
              THEN Deliver(t, cache[Key(tasks[t].epd)])
              ELSE [tasks EXCEPT ![t].pc = Fetching]
  /\ UNCHANGED << depth, concurrency, source, visited, cache, nodes, edges >>

\* what get_moves_* builds from the provider's answer
Answer(epd, ok) ==
  IF ~ok THEN << >>
  ELSE IF source = "lichess" THEN LichessMoves(ProviderData(epd))
  ELSE StdMoves(ProviderData(epd))

\* does a failing provider end get_moves with an exception?  chessdb and
\* lichess catch every exception; get_moves_engine has no handler
ProviderRaises(ok) == ~ok /\ source = "engine"

CachePut(key, stdmoves) ==
  [k \in DOMAIN cache \cup {key} |-> IF k = key THEN stdmoves ELSE cache[k]]

\* the calls that may fail: a query for a position the provider knows moves
\* of (for the others the answer is an empty list in any case)
MayFail(epd) == ProviderData(epd) # << >>

\* get_moves asks the provider, which answers (ok) or fails; the answer is
\* stored in the cache and returned, an exception ends the calling recurse
FetchEnd(t, ok) ==
  /\ tasks[t].pc = Fetching
  /\ ~ok => /\ MayFail(tasks[t].epd)
            /\ Cardinality({u \in TaskIds : tasks[u].failed}) < MaxFailures
  /\ IF ProviderRaises(ok)
     THEN /\ tasks' = [tasks EXCEPT ![t].pc = Raised, ![t].failed = TRUE]
          /\ UNCHANGED cache
     ELSE /\ tasks' = [Deliver(t, Answer(tasks[t].epd, ok)) EXCEPT ![t].failed = ~ok]
          /\ cache' = CachePut(Key(tasks[t].epd), Answer(tasks[t].epd, ok))
  /\ UNCHANGED << depth, concurrency, source, visited, nodes, edges >>

\* one pass of "for m in sorted(moves, ...)": the alpha cutoff ends the loop;
\* otherwise the move is pushed, its depth computed, and with newDepth >= 0
\* an edge is written and, for a target not yet visited, a child submitted
LoopStep(t) ==
  /\ tasks[t].pc = InLoop
  /\ LET r == tasks[t]
         m == r.moves[r.i]
         score == m.score
         best == IF r.bestscore = None THEN << score >> ELSE r.bestscore
     IN IF AlphaCutoff(score, r.alpha)
        THEN /\ tasks' = [tasks EXCEPT ![t].bestscore = best, ![t].pc = Waiting]
             /\ UNCHANGED edges
        ELSE LET epdto == Push(r.epd, m.uci)
                 found == r.edgesfound + 1
                 pvEdge == PvEdge(r.pvNode, score, best[1])
                 lateEdge == LateEdge(score, best[1])
                 newDepth == NewDepth(r.depth, score, best[1], found)
                 submit == newDepth >= 0 /\ epdto \notin visited
                 ab == ChildBounds(r.alpha, r.beta)
                 child == NewTask(epdto, newDepth, ab[1], ab[2], pvEdge,
                                  r.plyFromRoot + 1, PoolIndex(r.depth, newDepth),
                                  t, r.i, Queued, r.user)
                 after == [r EXCEPT
                             !.bestscore = best,
                             !.edgesfound = found,
                             !.edgesdrawn = IF newDepth >= 0 THEN @ + 1 ELSE @,
                             !.futures = IF submit THEN @ \cup {Len(tasks) + 1} ELSE @,
                             !.newDepths = Append(@, newDepth),
                             !.i = @ + 1,
                             !.pc = IF r.i = Len(r.moves) THEN Waiting ELSE InLoop]
             IN /\ tasks' = IF submit
                            THEN Append([tasks EXCEPT ![t] = after], child)
                            ELSE [tasks EXCEPT ![t] = after]
                /\ edges' = IF newDepth >= 0
                            THEN edges \cup
                                 {[ task |-> t, from |-> r.epd, to |-> epdto,
                                    uci |-> m.uci, cand |-> r.i, score |-> score,
                                    pvEdge |-> pvEdge, lateEdge |-> lateEdge ]}
                            ELSE edges
  /\ UNCHANGED << depth, concurrency, source, visited, cache, nodes >>

\* write_node without waiting for the submitted children
ChildrenEndedNoWait(t) == TRUE

\* concurrent.futures.wait(futures) returns once every submitted child has
\* ended (returned or raised)
ChildrenEnded(t) == \A f \in tasks[t].futures : tasks[f].pc \in Finished

\* the end of recurse: after the wait, write_node and return
Finish(t) ==
  /\ tasks[t].pc = Waiting
  /\ ChildrenEnded(t)
  /\ nodes' = nodes \cup
       {[ task |-> t, epd |-> tasks[t].epd, score |-> tasks[t].bestscore,
          showboard |-> ShowBoard(tasks[t].edgesdrawn, tasks[t].pvNode,
                                  tasks[t].plyFromRoot),
          pvNode |-> tasks[t].pvNode ]}
  /\ tasks' = [tasks EXCEPT ![t].pc = Done]
  /\ UNCHANGED << depth, concurrency, source, visited, cache, edges >>

\* the cache file of an earlier run: the moves of A as the provider gives
\* them now, an empty list for X, and for W the moves the provider knew then
StoredCache ==
  [k \in {Key("A"), Key("X"), Key("W")} |->
     IF k = Key("A") THEN Answer("A", TRUE)
     ELSE IF k = Key("W")
          THEN << [uci |-> "m1", score |-> 40], [uci |-> "m2", score |-> 35],
                  [uci |-> "m3", score |-> 40] >>
          ELSE << >>]

\* main, without --purgecache: load_cache reads the cache file before
\* generate_graph is called (no file leaves the cache empty)
LoadCache ==
  /\ tasks = << >>
  /\ cache = << >>
  /\ cache' = StoredCache
  /\ UNCHANGED << depth, concurrency, source, visited, tasks, nodes, edges >>

\* the run with a provider that answers every call
NextAnswered ==
  \/ LoadCache
  \/ \E epd \in Roots, ab \in UserBounds : GenerateGraph(epd, ab[1], ab[2])
  \/ \E t \in TaskIds : CheckVisited(t)
  \/ \E t \in TaskIds : MarkVisited(t)
  \/ \E t \in TaskIds : FetchBegin(t)
  \/ \E t \in TaskIds : FetchEnd(t, TRUE)
  \/ \E t \in TaskIds : LoopStep(t)
  \/ \E t \in TaskIds : Finish(t)

Next ==
  \/ LoadCache
  \/ \E epd \in Roots, ab \in UserBounds : GenerateGraph(epd, ab[1], ab[2])
  \/ \E t \in TaskIds : CheckVisited(t)
  \/ \E t \in TaskIds : MarkVisited(t)
  \/ \E t \in TaskIds : FetchBegin(t)
  \/ \E t \in TaskIds, ok \in BOOLEAN : FetchEnd(t, ok)
  \/ \E t \in TaskIds : LoopStep(t)
  \/ \E t \in TaskIds : Finish(t)

Spec == Init /\ [][Next]_vars

\* ------------------------------------------------------------------ claims
Edges(t) == {e \in edges : e.task = t}
Nodes(t) == {n \in nodes : n.task = t}
Children(t) == {c \in TaskIds : tasks[c].parent = t}

\* the calls of recurse that went past the visited test
Expanding(t) == tasks[t].pc \notin {Queued, Returned}

\* C1: each distinct position is expanded at most once: at most one call of
\* recurse passes the visited test for an EPD, and write_node is called at
\* most once per EPD, whatever the interleaving of the worker threads.
C1_ExpandedAtMostOnce ==
  /\ \A t, u \in TaskIds :
       (Expanding(t) /\ Expanding(u) /\ tasks[t].epd = tasks[u].epd) => t = u
  /\ \A n, m \in nodes : n.epd = m.epd => n = m

\* the run is over: generate_graph was called and every call of recurse ended
RunEnded == tasks # << >> /\ \A t \in TaskIds : tasks[t].pc \in Finished

\* the root call returned after write_node of the root position
RootEmitted ==
  /\ tasks[1].pc = Done
  /\ \E n \in nodes : n.task = 1 /\ n.epd = tasks[1].epd

\* every thread that can take a step eventually takes one
FairSpec == Init /\ [][NextAnswered]_vars /\ WF_vars(NextAnswered)

\* C2: when every score fetch returns, the run never hangs: every submitted
\* call of recurse eventually ends and the root call returns after emitting
\* the root node (for every concurrency >= 1 and depth >= 0).
C2_NoHang == <>(RunEnded /\ RootEmitted)

C2_Witness ==
  /\ concurrency = 1 /\ depth >= 3
  /\ RunEnded /\ RootEmitted
  /\ \E t \in TaskIds : tasks[t].plyFromRoot = 3 /\ tasks[t].pc = Done

\* C3: a task of remaining depth d submits its children to graph pool d only;
\* a task run by a worker of graph pool k has remaining depth < k and waits
\* only on tasks of pools < k, never on a task of its own pool; every call of
\* recurse runs in the calling thread or in a graph pool 1..depth.
C3_PoolPerDepth ==
  \A t \in TaskIds :
    /\ tasks[t].parent = 0 => tasks[t].pool = MainThread
    /\ tasks[t].parent # 0 =>
         /\ tasks[t].pool = tasks[tasks[t].parent].depth
         /\ tasks[t].pool \in 1..depth
         /\ tasks[t].depth < tasks[t].pool
    /\ \A f \in tasks[t].futures :
         /\ tasks[f].pool # tasks[t].pool
         /\ tasks[t].pool # MainThread => tasks[f].pool < tasks[t].pool

C3_Witness ==
  \E t \in TaskIds :
    /\ tasks[t].pool # MainThread
    /\ tasks[t].pc = Waiting
    /\ \E f \in tasks[t].futures : tasks[f].pc = Queued

\* the candidate list of a task is in descending score order
Descending(ms) == \A i, j \in 1..Len(ms) : i < j => ms[i].score >= ms[j].score

\* C4: no emitted edge has a score <= the alpha of the task that emitted it:
\* the candidates are gone through in descending score order and every
\* candidate up to an emitted edge has a score > alpha.
C4_AlphaCutoff ==
  /\ \A t \in TaskIds : Descending(tasks[t].moves)
  /\ \A e \in edges :
       /\ e.score > tasks[e.task].alpha
       /\ \A j \in 1..e.cand : tasks[e.task].moves[j].score > tasks[e.task].alpha

C4_Witness ==
  \E t \in TaskIds :
    /\ tasks[t].pc = Done
    /\ Edges(t) # {}
    /\ \E j \in 1..Len(tasks[t].moves) : tasks[t].moves[j].score = tasks[t].alpha

\* C5: a child's remaining depth is strictly smaller than its parent's, and
\* no call of recurse has a remaining depth < 0.
C5_DepthDecreases ==
  \A t \in TaskIds :
    /\ tasks[t].depth >= 0
    /\ tasks[t].parent # 0 => tasks[t].depth < tasks[tasks[t].parent].depth

C5_Witness ==
  \E t \in TaskIds :
    /\ tasks[t].parent # 0
    /\ tasks[t].depth = 0 /\ tasks[t].pc = Done
    /\ tasks[tasks[t].parent].depth = 2

\* C6: every child gets the bounds (-beta, -alpha) of its parent and a
\* ply-from-root one larger, on every path from the root.
C6_NegamaxBounds ==
  \A t \in TaskIds :
    tasks[t].parent # 0 =>
      /\ tasks[t].alpha = 0 - tasks[tasks[t].parent].beta
      /\ tasks[t].beta = 0 - tasks[tasks[t].parent].alpha
      /\ tasks[t].plyFromRoot = tasks[tasks[t].parent].plyFromRoot + 1

C6_Witness ==
  \E t \in TaskIds :
    /\ tasks[t].plyFromRoot = 2 /\ tasks[t].pc = Done
    /\ tasks[t].alpha # 0 - tasks[t].beta

\* C7: a task for a position without legal moves never asks the score
\* provider, emits no edge and no child, and its node has bestScore -30000
\* when the side to move is in check and 0 when it is not.
C7_TerminalNode ==
  \A t \in TaskIds :
    tasks[t].epd \in NoLegalMoves =>
      /\ tasks[t].pc \notin {FetchQueued, Fetching, InLoop, Raised}
      /\ ~tasks[t].failed
      /\ tasks[t].moves = << >>
      /\ Edges(t) = {} /\ Children(t) = {}
      /\ tasks[t].pc = Done => Nodes(t) # {}
      /\ \A n \in Nodes(t) :
           n.score = IF tasks[t].epd \in InCheck THEN << -30000 >> ELSE << 0 >>

C7_Witness ==
  /\ \E n \in nodes : n.epd \in NoLegalMoves /\ n.epd \in InCheck /\ n.score = << -30000 >>
  /\ \E n \in nodes : n.epd \in NoLegalMoves /\ n.epd \notin InCheck /\ n.score = << 0 >>

\* C8: every candidate whose score is the best score of its task gets the
\* child depth remainingDepth - 1; the top candidate, once past the alpha
\* test, is drawn whenever remainingDepth >= 1, and a task of remaining
\* depth 0 draws nothing.
C8_BestReplyDepth ==
  \A t \in TaskIds :
    /\ \A j \in 1..Len(tasks[t].newDepths) :
         tasks[t].moves[j].score = tasks[t].moves[1].score =>
           tasks[t].newDepths[j] = tasks[t].depth - 1
    /\ (Len(tasks[t].newDepths) >= 1 /\ tasks[t].depth >= 1) =>
         \E e \in Edges(t) : e.cand = 1
    /\ tasks[t].depth = 0 => (Edges(t) = {} /\ Children(t) = {})
    /\ \A c \in Children(t) :
         tasks[t].moves[tasks[c].cand].score = tasks[t].moves[1].score =>
           tasks[c].depth = tasks[t].depth - 1

C8_Witness ==
  \E t \in TaskIds, c \in TaskIds :
    /\ tasks[c].parent = t /\ tasks[c].cand = 2 /\ tasks[c].pc = Done
    /\ tasks[t].moves[2].score = tasks[t].moves[1].score
    /\ tasks[c].depth = tasks[t].depth - 1

\* the plies a candidate of rank 2..8 loses, as the specification lists them
ClaimedLoss(rank) ==
  CASE rank = 2 -> 2
    [] rank \in 3..5 -> 3
    [] rank \in 6..8 -> 4

\* the child depth the specification gives candidate j of task t
ClaimedDepth(t, j) ==
  IF tasks[t].moves[j].score = tasks[t].moves[1].score
  THEN tasks[t].depth - 1
  ELSE tasks[t].depth - ClaimedLoss(j)

\* the first candidate of task t with score <= alpha (one past the end if none)
CutoffAt(t) ==
  IF \E j \in 1..Len(tasks[t].moves) : tasks[t].moves[j].score <= tasks[t].alpha
  THEN CHOOSE j \in 1..Len(tasks[t].moves) :
         /\ tasks[t].moves[j].score <= tasks[t].alpha
         /\ \A k \in 1..(j - 1) : tasks[t].moves[k].score > tasks[t].alpha
  ELSE Len(tasks[t].moves) + 1

\* the number of candidates the move loop of task t has been through
Processed(t) ==
  IF tasks[t].pc = InLoop THEN tasks[t].i - 1
  ELSE IF tasks[t].pc \in {Waiting, Done} THEN Len(tasks[t].moves)
  ELSE 0

\* the run of the specification's scenario: depth 2, alpha 0, beta 15 and the
\* root candidates e2e4:30, d2d4:20, a2a3:-5, with the root's loop finished
Scenario ==
  /\ tasks # << >>
  /\ depth = 2 /\ tasks[1].alpha = 0 /\ tasks[1].beta = 15
  /\ tasks[1].pc \in {Waiting, Done}
  /\ tasks[1].moves = << [uci |-> "e2e4", score |-> 30],
                         [uci |-> "d2d4", score |-> 20],
                         [uci |-> "a2a3", score |-> -5] >>

\* C9: a task emits an edge for exactly the candidates reached before the
\* alpha cutoff whose child depth is >= 0, the child depth being
\* remainingDepth - 1 for a best-score candidate and remainingDepth minus
\* 2,3,3,3,4,4,4 for a later candidate of rank 2..8; a candidate without an
\* edge has no child task; in the scenario exactly 2 edges leave the root and
\* the e2e4 edge is principal.
C9_EdgeRule ==
  /\ \A t \in TaskIds :
       /\ {e.cand : e \in Edges(t)} =
            {j \in 1..Len(tasks[t].moves) :
               j <= Processed(t) /\ j < CutoffAt(t) /\ ClaimedDepth(t, j) >= 0}
       /\ \A c \in Children(t) :
            /\ \E e \in Edges(t) : e.cand = tasks[c].cand /\ e.to = tasks[c].epd
            /\ tasks[c].depth = ClaimedDepth(t, tasks[c].cand)
  /\ Scenario =>
       /\ Cardinality(Edges(1)) = 2
       /\ \E e \in Edges(1) : e.uci = "e2e4" /\ e.score = 30 /\ e.pvEdge
       /\ \E e \in Edges(1) : e.uci = "d2d4" /\ e.score = 20 /\ ~e.pvEdge

C9_Witness == Scenario /\ tasks[1].pc = Done /\ Cardinality(Edges(1)) = 2

\* C10: when the score provider fails for a non-root position, the position
\* is still emitted as a node with bestScore None and without outgoing edges.
C10_FailedFetchStillEmitsNode ==
  \A t \in TaskIds :
    (tasks[t].parent # 0 /\ tasks[t].failed /\ tasks[t].pc \in Finished) =>
      /\ \E n \in Nodes(t) : n.epd = tasks[t].epd /\ n.score = None
      /\ Edges(t) = {}

\* C11: no failure of a score provider ends a call of recurse with an
\* exception: for every source and every position, the root included, the
\* task of a failed get_moves goes on with an empty candidate list, so
\* generate_graph returns normally.
C11_ProviderFailureContained ==
  \A t \in TaskIds :
    tasks[t].failed =>
      /\ tasks[t].pc \in {Waiting, Done}
      /\ tasks[t].moves = << >>

\* the calls of recurse a task descends from, and the calls in its subtree
RECURSIVE Ancestors(_)
Ancestors(u) ==
  IF tasks[u].parent = 0 THEN {}
  ELSE {tasks[u].parent} \cup Ancestors(tasks[u].parent)

Subtree(t) == {u \in TaskIds : t \in Ancestors(u)}

\* C12: a task emits its node only after every child it submitted has ended;
\* when the node of task t is emitted, every task of t's subtree has ended
\* and the node of every position such a task expanded is already emitted;
\* the root node is the last node emitted.
C12_NodeAfterSubtree ==
  [][ \A t \in TaskIds :
        (tasks[t].pc = Waiting /\ tasks'[t].pc = Done) =>
          /\ \A f \in tasks[t].futures : tasks[f].pc \in Finished
          /\ \A u \in Subtree(t) :
               /\ tasks[u].pc \in Finished
               /\ tasks[u].pc = Done => \E n \in nodes : n.task = u /\ n.epd = tasks[u].epd
          /\ t = 1 => \A u \in TaskIds \ {1} : tasks[u].pc \in Finished
    ]_vars

C12_Witness ==
  /\ tasks # << >>
  /\ tasks[1].pc = Done
  /\ \E n \in nodes : n.task = 1
  /\ \E c, g \in TaskIds :
       /\ tasks[c].parent = 1 /\ tasks[g].parent = c
       /\ tasks[c].pc = Done /\ tasks[g].pc = Done
       /\ \E k \in TaskIds : tasks[k].parent = 1 /\ tasks[k].pc = Done /\ k > c

\* C13: the score cache is append-only within a run: no step removes the
\* entry of a key or replaces it with a different move list.
C13_CacheAppendOnly ==
  [][ \A k \in DOMAIN cache : k \in DOMAIN cache' /\ cache'[k] = cache[k] ]_vars

\* C14: a call of recurse that starts on a position already in the visited
\* set returns at once: that step changes nothing but the call's own place
\* (visited set, cache, nodes, edges and the other tasks stay as they are, no
\* task is added), and the returned call has fetched nothing, has no child,
\* no edge and no node, and never takes another step.
C14_VisitedReturnsAtOnce ==
  [][ \A t \in TaskIds :
        /\ (tasks[t].pc = Queued /\ tasks[t].epd \in visited /\ tasks'[t] # tasks[t]) =>
             /\ tasks' = [tasks EXCEPT ![t].pc = Returned]
             /\ visited' = visited /\ cache' = cache
             /\ nodes' = nodes /\ edges' = edges
        /\ tasks[t].pc = Returned =>
             /\ tasks'[t] = tasks[t]
             /\ tasks[t].moves = << >> /\ ~tasks[t].failed
             /\ tasks[t].futures = {} /\ Children(t) = {}
             /\ Edges(t) = {} /\ Nodes(t) = {}
    ]_vars

C14_Witness ==
  \E t, u \in TaskIds :
    /\ tasks[t].pc = Returned
    /\ tasks[u].epd = tasks[t].epd /\ tasks[u].pc = Done
    /\ Edges(u) # {}
    /\ tasks[tasks[t].parent].pc = Done

\* C15: an edge is principal exactly when the task that wrote it is a PV task
\* and the move's score is the best score of that task, and late exactly when
\* its score is not the best score; a child is a PV task exactly when its
\* parent is one and its move has the best score, the same flag as its edge;
\* the root task is a PV task.
C15_PvFlag ==
  /\ \A e \in edges :
       /\ e.pvEdge = (tasks[e.task].pvNode /\ e.score = tasks[e.task].moves[1].score)
       /\ e.lateEdge = (e.score # tasks[e.task].moves[1].score)
  /\ \A c \in TaskIds :
       IF tasks[c].parent = 0
       THEN tasks[c].pvNode
       ELSE LET p == tasks[c].parent
            IN /\ tasks[c].pvNode =
                    (tasks[p].pvNode /\
                     tasks[p].moves[tasks[c].cand].score = tasks[p].moves[1].score)
               /\ \E e \in Edges(p) :
                    e.cand = tasks[c].cand /\ e.to = tasks[c].epd /\ e.pvEdge = tasks[c].pvNode

C15_Witness ==
  /\ \E e \in edges :
       /\ ~tasks[e.task].pvNode /\ e.score = tasks[e.task].moves[1].score
       /\ ~e.pvEdge /\ ~e.lateEdge
       /\ \E c \in Children(e.task) :
            tasks[c].cand = e.cand /\ ~tasks[c].pvNode /\ tasks[c].pc = Done
  /\ \E e \in edges : e.pvEdge /\ tasks[e.task].plyFromRoot = 2
  /\ \E e \in edges : e.lateEdge /\ tasks[e.task].pvNode

\* the step of task t that is its get_moves call looking into the cache
GetMovesCall(t) == tasks[t].pc = FetchQueued /\ tasks'[t] # tasks[t]

\* the call gives back the cached list and the provider is not asked
AnsweredFromCache(t) ==
  LET ms == cache[<< tasks[t].epd, source >>]
  IN /\ tasks'[t].pc \in {InLoop, Waiting}
     /\ Len(tasks'[t].moves) = Len(ms)
     /\ {tasks'[t].moves[j] : j \in 1..Len(ms)} = {ms[j] : j \in 1..Len(ms)}
     /\ cache' = cache

\* the call goes on to ask the provider
ProviderAsked(t) == tasks'[t].pc = Fetching

\* C16: for chessdb and lichess a cached non-empty list is returned without
\* asking the provider, and with a cached empty list (or none) the provider
\* is asked, on every get_moves call; for the engine any cached entry, an
\* empty list included, is returned without running the engine.
C16_CachePolicy ==
  [][ \A t \in TaskIds :
        GetMovesCall(t) =>
          LET k == << tasks[t].epd, source >>
          IN IF source = "engine"
             THEN IF k \in DOMAIN cache
                  THEN AnsweredFromCache(t) ELSE ProviderAsked(t)
             ELSE IF k \in DOMAIN cache /\ cache[k] # << >>
                  THEN AnsweredFromCache(t) ELSE ProviderAsked(t)
    ]_vars

\* a chessdb run with the cache of an earlier run: the list cached for A was
\* used as it is, the empty list cached for X was not and X was fetched again
C16_Witness ==
  /\ source = "chessdb"
  /\ << "W", source >> \in DOMAIN cache
  /\ \E t, u \in TaskIds :
       /\ tasks[t].epd = "A" /\ tasks[t].pc = Done /\ tasks[t].moves # << >>
       /\ tasks[u].epd = "X" /\ tasks[u].pc = Done /\ tasks[u].moves # << >>
       /\ cache[<< "X", source >>] # << >>

\* no call of get_moves has failed
NoFailure == \A t \in TaskIds : ~tasks[t].failed

\* C17: when the run has ended (and no provider call failed), every position
\* that a principal edge leads to has a node with the principal flag set,
\* also when the position is reached over a non-principal path as well.
C17_PvTargetIsPvNode ==
  (RunEnded /\ NoFailure) =>
    \A e \in edges :
      e.pvEdge => \E n \in nodes : n.epd = e.to /\ n.pvNode

\* C18: once the root call has returned after write_node, the graph is
\* closed: every position an edge leads to has a node, and the positions
\* with a node are exactly the positions in the visited set.
C18_GraphClosed ==
  (tasks # << >> /\ tasks[1].pc = Done) =>
    /\ \A e \in edges : \E n \in nodes : n.epd = e.to
    /\ {n.epd : n \in nodes} = visited

\* the score of an edge from White's point of view
WhiteScore(e) == IF Turn(e.from) = White THEN e.score ELSE 0 - e.score

\* C19: with the user's bounds (alpha, beta) given from White's point of
\* view, a task with White to move has the bounds (alpha, beta) and a task
\* with Black to move (-beta, -alpha), whichever side moves at the root; an
\* edge for a White move has a White score > alpha and an edge for a Black
\* move a White score < beta; a task's own beta prunes nothing: every
\* candidate gone through before the alpha cutoff with a child depth >= 0
\* has its edge, however large its score.
C19_WhiteBounds ==
  \A t \in TaskIds :
    LET ualpha == tasks[t].user[1]
        ubeta == tasks[t].user[2]
    IN /\ Turn(tasks[t].epd) = White =>
            tasks[t].alpha = ualpha /\ tasks[t].beta = ubeta
       /\ Turn(tasks[t].epd) = Black =>
            tasks[t].alpha = 0 - ubeta /\ tasks[t].beta = 0 - ualpha
       /\ \A e \in Edges(t) :
            IF Turn(e.from) = White THEN WhiteScore(e) > ualpha
            ELSE WhiteScore(e) < ubeta
       /\ \A j \in 1..Len(tasks[t].newDepths) :
            (tasks[t].moves[j].score > tasks[t].alpha /\ tasks[t].newDepths[j] >= 0) =>
              \E e \in Edges(t) : e.cand = j

C19_Witness ==
  /\ tasks # << >>
  /\ Turn(tasks[1].epd) = Black /\ tasks[1].pc = Done
  /\ tasks[1].alpha = 0 - tasks[1].user[2] /\ tasks[1].alpha # tasks[1].user[1]
  /\ \E e \in Edges(1) : 0 - e.score < tasks[1].user[2]
  /\ \E t \in TaskIds :
       /\ tasks[t].parent = 1 /\ Turn(tasks[t].epd) = White /\ tasks[t].pc = Done
       /\ \E e \in Edges(t) : e.score >= tasks[t].beta

\* C20: within one task the candidates are in descending score order, the
\* child depths computed for successive candidates never increase, and the
\* candidates with an edge are the first ones of the list: after a candidate
\* without an edge (alpha cutoff or child depth < 0) no later candidate has
\* an edge or a child.
C20_EdgesArePrefix ==
  \A t \in TaskIds :
    /\ Descending(tasks[t].moves)
    /\ \A j, k \in 1..Len(tasks[t].newDepths) :
         j < k => tasks[t].newDepths[j] >= tasks[t].newDepths[k]
    /\ {e.cand : e \in Edges(t)} = 1..Cardinality({e.cand : e \in Edges(t)})
    /\ \A c \in Children(t) : tasks[c].cand \in {e.cand : e \in Edges(t)}

\* a finished task with an edge, then candidates left out for their child
\* depth, then the alpha cutoff
C20_Witness ==
  \E t \in TaskIds :
    /\ tasks[t].pc = Done /\ Edges(t) # {}
    /\ \E j, k \in 1..Len(tasks[t].newDepths) :
         /\ j < k /\ k < Len(tasks[t].newDepths)
         /\ tasks[t].newDepths[j] >= 0 /\ tasks[t].newDepths[k] < 0
    /\ Len(tasks[t].newDepths) < Len(tasks[t].moves)

====
